---- MODULE Spec2Model ----
(***************************************************************************)
(* State-machine model of src/server.py: six MCP tool handlers that pass   *)
(* through to the OCI Data Science backend.  Each handler is modelled      *)
(* statement by statement: every call that can raise is one step, with a   *)
(* success outcome and a failure outcome for each exception.               *)
(***************************************************************************)
EXTENDS Integers, Sequences, FiniteSets, TLC

\* ---------------------------------------------------------------- bounds
\* Number of tool invocations the dispatcher accepts in one behaviour.
MaxInvocations == 2

\* Client connections; each has at most one invocation in flight.
Clients == {"k1", "k2"}

\* Inputs the callers draw from.
Compartments == {"cA", "cB"}
Names == {"X", "Z"}
Descriptions == {"Y"}
ProjectIds == {101}

\* Exceptions an SDK call can raise (all subclasses of Exception).
Exceptions == {[type |-> "ServiceError", message |-> "m1"],
               [type |-> "ConnectTimeout", message |-> "m2"]}

Tools == {"get_compartment_id", "project_count", "create_project",
          "model_count", "list_projects", "create_notebook_session"}

\* What the backend holds when the server starts: compartment cA holds two
\* projects and three models, compartment cB is empty.
SeedA == [id |-> 101, display_name |-> "Z", description |-> "Y", compartment_id |-> "cA"]
SeedB == [id |-> 102, display_name |-> "X", description |-> "Y", compartment_id |-> "cA"]
InitialProjects == <<SeedB, SeedA>>
InitialModels == [c \in Compartments |-> IF c = "cA" THEN <<"m1", "m2", "m3">> ELSE <<>>]

VARIABLES
    projects,      \* backend: all projects, in the service's listing order
    models,        \* backend: model listing of each compartment (read-only here)
    sessions,      \* backend: notebook sessions created
    principal,     \* compartment of the resource principal
    inv,           \* per connection: the invocation in flight or last ended
    stdout,        \* per connection: lines print() wrote during the invocation
    stderr,        \* per connection: records the logging module wrote during it
    calls,         \* per connection: backend calls issued during the invocation
    seen,          \* per connection: project counts the compartment held during it
    started        \* invocations accepted so far

vars == <<projects, models, sessions, principal, inv, stdout, stderr, calls, seen, started>>

\* No exception.
NoException == [type |-> "none", message |-> ""]

\* An invocation record: thrown is the exception the failing statement raised,
\* exc the exception that left the handler, result the value returned.
Idle == [tool |-> "none", args |-> <<>>, pc |-> "idle", status |-> "idle",
         thrown |-> NoException, exc |-> NoException, result |-> <<>>, local |-> <<>>]

Init ==
    /\ projects = InitialProjects
    /\ models = InitialModels
    /\ sessions = <<>>
    /\ principal \in Compartments
    /\ inv = [k \in Clients |-> Idle]
    /\ stdout = [k \in Clients |-> <<>>]
    /\ stderr = [k \in Clients |-> <<>>]
    /\ calls = [k \in Clients |-> <<>>]
    /\ seen = [k \in Clients |-> {}]
    /\ started = 0

\* ------------------------------------------------------------ the backend
\* ds_client.list_projects(compartment_id): the compartment's projects, in order.
ListProjectsOf(c) == SelectSeq(projects, LAMBDA p : p.compartment_id = c)

\* ds_client.create_project(details): the record the service stores and returns.
NewProject(display_name, description, compartment_id) ==
    [id |-> Len(projects) + 1, display_name |-> display_name,
     description |-> description, compartment_id |-> compartment_id]

\* ------------------------------------------------------------ the handlers
\* First statement of each handler.
EntryPc(tool) ==
    CASE tool = "get_compartment_id" -> "signer"
      [] tool = "project_count" -> "log_info"
      [] tool = "create_project" -> "catalog"
      [] tool = "model_count" -> "catalog"
      [] tool = "list_projects" -> "catalog"
      [] tool = "create_notebook_session" -> "signer"

\* Arguments each tool accepts (no validation is performed on them).
ArgsOf(tool) ==
    CASE tool = "get_compartment_id" -> {<<>>}
      [] tool = "project_count" -> [compartment_id : Compartments]
      [] tool = "create_project" ->
            [project_name : Names, project_description : Descriptions,
             compartment_id : Compartments]
      [] tool = "model_count" -> [compartment_id : Compartments]
      [] tool = "list_projects" -> [compartment_id : Compartments]
      [] tool = "create_notebook_session" ->
            [project_id : ProjectIds, compartment_id : Compartments,
             display_name : Names]

\* Tools whose body is wrapped in try/except Exception.
HasTry(tool) == tool # "get_compartment_id"

\* The text each except clause prints before the exception.
ErrorPrefix(tool) ==
    CASE tool = "project_count" -> "Error getting project count"
      [] tool = "create_project" -> "Error getting project count"
      [] tool = "model_count" -> "Error getting model count"
      [] tool = "list_projects" -> "Error getting project list"
      [] tool = "create_notebook_session" -> "Error creating notebook session"

At(k, tool, pc) ==
    /\ inv[k].status = "running"
    /\ inv[k].tool = tool
    /\ inv[k].pc = pc

\* One entry of the backend's call log: resp is the identifier of the resource a
\* successful creation call made (0 otherwise).
Call(op, req, ok, resp) == [op |-> op, req |-> req, ok |-> ok, resp |-> resp]

\* The dispatcher hands a tool call to its handler.
Invoke(k) ==
    /\ inv[k].status # "running"
    /\ started < MaxInvocations
    /\ \E tool \in Tools : \E args \in ArgsOf(tool) :
          /\ inv' = [inv EXCEPT ![k] = [tool |-> tool, args |-> args,
                        pc |-> EntryPc(tool), status |-> "running",
                        thrown |-> NoException, exc |-> NoException,
                        result |-> <<>>, local |-> <<>>]]
          /\ seen' = [seen EXCEPT ![k] =
                        IF tool = "project_count"
                        THEN {Len(ListProjectsOf(args.compartment_id))}
                        ELSE {}]
    /\ stdout' = [stdout EXCEPT ![k] = <<>>]
    /\ stderr' = [stderr EXCEPT ![k] = <<>>]
    /\ calls' = [calls EXCEPT ![k] = <<>>]
    /\ started' = started + 1
    /\ UNCHANGED <<projects, models, sessions, principal>>


\* Control moves to the next statement, with the handler's local variables.
Goto(k, pc, local) == inv' = [inv EXCEPT ![k].pc = pc, ![k].local = local]

\* return <value>
Return(k, value) ==
    inv' = [inv EXCEPT ![k].pc = "done", ![k].status = "returned", ![k].result = value]

\* Mutant of Throw: the failed statement is executed again.
ThrowRetry(k, e) == inv' = [inv EXCEPT ![k].thrown = e]

\* A statement raises e: inside try the except clause takes over; outside it
\* (get_compartment_id) the exception leaves the handler at once.
Throw(k, e) ==
    inv' = [inv EXCEPT ![k] =
              IF HasTry(@.tool)
              THEN [@ EXCEPT !.pc = "except", !.thrown = e]
              ELSE [@ EXCEPT !.pc = "done", !.status = "raised",
                             !.thrown = e, !.exc = e]]

Issue(k, op, req, ok, resp) ==
    calls' = [calls EXCEPT ![k] = Append(@, Call(op, req, ok, resp))]

\* An SDK call raises: nothing changes in the backend.
SdkFails(k, op, req) ==
    /\ \E e \in Exceptions : Throw(k, e)
    /\ Issue(k, op, req, FALSE, 0)
    /\ UNCHANGED <<projects, models, sessions, principal, stdout, stderr, seen, started>>

\* A local statement (no SDK call) raises.
LocalFails(k) ==
    /\ \E e \in Exceptions : Throw(k, e)
    /\ UNCHANGED <<projects, models, sessions, principal, stdout, stderr, calls, seen, started>>

\* ---- get_compartment_id (no try/except)
\* signer = oci.auth.signers.get_resource_principals_signer()
GetCompartmentSigner(k) ==
    /\ At(k, "get_compartment_id", "signer")
    /\ \/ /\ Goto(k, "identity_client", [signer |-> [compartment_id |-> principal]])
          /\ Issue(k, "get_resource_principals_signer", <<>>, TRUE, 0)
          /\ UNCHANGED <<projects, models, sessions, principal, stdout, stderr, seen, started>>
       \/ SdkFails(k, "get_resource_principals_signer", <<>>)

\* identity_client = IdentityClient(config={}, signer=signer); return signer.compartment_id
GetCompartmentReturn(k) ==
    /\ At(k, "get_compartment_id", "identity_client")
    /\ \/ /\ Return(k, inv[k].local.signer.compartment_id)
          /\ Issue(k, "IdentityClient", <<>>, TRUE, 0)
          /\ UNCHANGED <<projects, models, sessions, principal, stdout, stderr, seen, started>>
       \/ SdkFails(k, "IdentityClient", <<>>)

\* ---- project_count
\* logger.info("calling project_count tool successfully"), before the try
ProjectCountLog(k) ==
    /\ At(k, "project_count", "log_info")
    /\ stderr' = [stderr EXCEPT ![k] =
                    Append(@, [level |-> "INFO",
                               message |-> "calling project_count tool successfully"])]
    /\ Goto(k, "catalog", <<>>)
    /\ UNCHANGED <<projects, models, sessions, principal, stdout, calls, seen, started>>

\* project_catalog = ProjectCatalog(compartment_id=compartment_id)
ProjectCountCatalog(k) ==
    /\ At(k, "project_count", "catalog")
    /\ \/ /\ Goto(k, "list", <<>>)
          /\ Issue(k, "ProjectCatalog", inv[k].args, TRUE, 0)
          /\ UNCHANGED <<projects, models, sessions, principal, stdout, stderr, seen, started>>
       \/ SdkFails(k, "ProjectCatalog", inv[k].args)

\* projects = project_catalog.list_projects()
ProjectCountList(k) ==
    /\ At(k, "project_count", "list")
    /\ \/ /\ Goto(k, "len", [projects |-> ListProjectsOf(inv[k].args.compartment_id)])
          /\ Issue(k, "list_projects", inv[k].args, TRUE, 0)
          /\ UNCHANGED <<projects, models, sessions, principal, stdout, stderr, seen, started>>
       \/ SdkFails(k, "list_projects", inv[k].args)

\* Mutant of CatalogLen: the count ignores the compartment.
CatalogLenAllCompartments(c) == Len(projects)

\* len(project_catalog): the catalog's __len__ lists the compartment again.
CatalogLen(c) == Len(ListProjectsOf(c))

\* Mutant of ProjectCountLen: both readings of the listing are added up.
ProjectCountLenBoth(k) ==
    /\ At(k, "project_count", "len")
    /\ \/ /\ Return(k, Len(inv[k].local.projects) + CatalogLen(inv[k].args.compartment_id))
          /\ Issue(k, "list_projects", inv[k].args, TRUE, 0)
          /\ UNCHANGED <<projects, models, sessions, principal, stdout, stderr, seen, started>>
       \/ SdkFails(k, "list_projects", inv[k].args)

\* num_projects = len(project_catalog); return num_projects
ProjectCountLen(k) ==
    /\ At(k, "project_count", "len")
    /\ \/ /\ Return(k, CatalogLen(inv[k].args.compartment_id))
          /\ Issue(k, "list_projects", inv[k].args, TRUE, 0)
          /\ UNCHANGED <<projects, models, sessions, principal, stdout, stderr, seen, started>>
       \/ SdkFails(k, "list_projects", inv[k].args)

\* ---- create_project
\* project_catalog = ProjectCatalog(compartment_id)
CreateProjectCatalog(k) ==
    /\ At(k, "create_project", "catalog")
    /\ \/ /\ Goto(k, "create", <<>>)
          /\ Issue(k, "ProjectCatalog", [compartment_id |-> inv[k].args.compartment_id], TRUE, 0)
          /\ UNCHANGED <<projects, models, sessions, principal, stdout, stderr, seen, started>>
       \/ SdkFails(k, "ProjectCatalog", [compartment_id |-> inv[k].args.compartment_id])

\* Mutant of CreateProjectRequest: name and description are passed in each other's place.
CreateProjectRequestSwapped(project_name, project_description, compartment_id) ==
    [display_name |-> project_description, description |-> project_name,
     compartment_id |-> compartment_id]

\* The keyword arguments of project_catalog.create_project(...).
CreateProjectRequest(project_name, project_description, compartment_id) ==
    [display_name |-> project_name, description |-> project_description,
     compartment_id |-> compartment_id]

\* Every running project_count on compartment c observes the compartment's new size.
Observe(c, n) ==
    seen' = [j \in Clients |->
               IF /\ inv[j].status = "running"
                  /\ inv[j].tool = "project_count"
                  /\ inv[j].args.compartment_id = c
               THEN seen[j] \cup {n}
               ELSE seen[j]]

\* Mutant of CreateProjectCall: the creation call is submitted twice.
CreateProjectCallTwice(k) ==
    /\ At(k, "create_project", "create")
    /\ LET a == inv[k].args
           req == CreateProjectRequest(a.project_name, a.project_description, a.compartment_id)
           res == NewProject(req.display_name, req.description, req.compartment_id)
           again == [res EXCEPT !.id = res.id + 1]
       IN \/ /\ projects' = Append(Append(projects, res), again)
             /\ Goto(k, "reshape", [res |-> again])
             /\ calls' = [calls EXCEPT ![k] =
                            Append(Append(@, Call("create_project", req, TRUE, res.id)),
                                   Call("create_project", req, TRUE, again.id))]
             /\ Observe(req.compartment_id, Len(ListProjectsOf(req.compartment_id)) + 2)
             /\ UNCHANGED <<models, sessions, principal, stdout, stderr, started>>
          \/ SdkFails(k, "create_project", req)

\* res = project_catalog.create_project(display_name=..., description=..., compartment_id=...)
CreateProjectCall(k) ==
    /\ At(k, "create_project", "create")
    /\ LET a == inv[k].args
           req == CreateProjectRequest(a.project_name, a.project_description, a.compartment_id)
           res == NewProject(req.display_name, req.description, req.compartment_id)
       IN \/ /\ projects' = Append(projects, res)
             /\ Goto(k, "reshape", [res |-> res])
             /\ Issue(k, "create_project", req, TRUE, res.id)
             /\ Observe(req.compartment_id, Len(ListProjectsOf(req.compartment_id)) + 1)
             /\ UNCHANGED <<models, sessions, principal, stdout, stderr, started>>
          \/ SdkFails(k, "create_project", req)

\* res.to_dataframe().to_dict(): one unnamed column holding the project's fields.
ProjectToDict(res) == ("" :> res)

\* return res.to_dataframe().to_dict()
CreateProjectReshape(k) ==
    /\ At(k, "create_project", "reshape")
    /\ \/ /\ Return(k, ProjectToDict(inv[k].local.res))
          /\ UNCHANGED <<projects, models, sessions, principal, stdout, stderr, calls, seen, started>>
       \/ LocalFails(k)

\* ---- model_count
\* model_catalog = ModelCatalog(compartment_id=compartment_id)
ModelCountCatalog(k) ==
    /\ At(k, "model_count", "catalog")
    /\ \/ /\ Goto(k, "list", <<>>)
          /\ Issue(k, "ModelCatalog", inv[k].args, TRUE, 0)
          /\ UNCHANGED <<projects, models, sessions, principal, stdout, stderr, seen, started>>
       \/ SdkFails(k, "ModelCatalog", inv[k].args)

\* Mutant of ListModelsOf: the project listing is read instead of the model listing.
ListModelsFromProjects(c) == ListProjectsOf(c)

\* model_catalog.list_models()
ListModelsOf(c) == models[c]

\* models = model_catalog.list_models(); num_models = len(models); return num_models
ModelCountList(k) ==
    /\ At(k, "model_count", "list")
    /\ \/ /\ Return(k, Len(ListModelsOf(inv[k].args.compartment_id)))
          /\ Issue(k, "list_models", inv[k].args, TRUE, 0)
          /\ UNCHANGED <<projects, models, sessions, principal, stdout, stderr, seen, started>>
       \/ SdkFails(k, "list_models", inv[k].args)

\* ---- list_projects
\* project_catalog = ProjectCatalog(compartment_id)
ListProjectsCatalog(k) ==
    /\ At(k, "list_projects", "catalog")
    /\ \/ /\ Goto(k, "list", <<>>)
          /\ Issue(k, "ProjectCatalog", inv[k].args, TRUE, 0)
          /\ UNCHANGED <<projects, models, sessions, principal, stdout, stderr, seen, started>>
       \/ SdkFails(k, "ProjectCatalog", inv[k].args)

\* projects = project_catalog.list_projects()
ListProjectsList(k) ==
    /\ At(k, "list_projects", "list")
    /\ \/ /\ Goto(k, "reshape", [projects |-> ListProjectsOf(inv[k].args.compartment_id)])
          /\ Issue(k, "list_projects", inv[k].args, TRUE, 0)
          /\ UNCHANGED <<projects, models, sessions, principal, stdout, stderr, seen, started>>
       \/ SdkFails(k, "list_projects", inv[k].args)

\* Mutant of ProjectRecords: the records come out in reverse order.
ProjectRecordsReversed(listing) ==
    [i \in 1..Len(listing) |->
        [project_id |-> listing[Len(listing) + 1 - i].id,
         project_name |-> listing[Len(listing) + 1 - i].display_name,
         project_description |-> listing[Len(listing) + 1 - i].description]]

\* The loop over range(len(projects)) filling three lists, then
\* pd.DataFrame({...}).to_dict('records'): one mapping per index.
ProjectRecords(listing) ==
    LET project_id == [i \in 1..Len(listing) |-> listing[i].id]
        project_name == [i \in 1..Len(listing) |-> listing[i].display_name]
        project_desc == [i \in 1..Len(listing) |-> listing[i].description]
    IN [i \in 1..Len(listing) |->
          [project_id |-> project_id[i], project_name |-> project_name[i],
           project_description |-> project_desc[i]]]

ListProjectsReshape(k) ==
    /\ At(k, "list_projects", "reshape")
    /\ \/ /\ Return(k, ProjectRecords(inv[k].local.projects))
          /\ UNCHANGED <<projects, models, sessions, principal, stdout, stderr, calls, seen, started>>
       \/ LocalFails(k)

\* ---- create_notebook_session
\* signer = oci.auth.signers.get_resource_principals_signer()
NotebookSigner(k) ==
    /\ At(k, "create_notebook_session", "signer")
    /\ \/ /\ Goto(k, "ds_client", <<>>)
          /\ Issue(k, "get_resource_principals_signer", <<>>, TRUE, 0)
          /\ UNCHANGED <<projects, models, sessions, principal, stdout, stderr, seen, started>>
       \/ SdkFails(k, "get_resource_principals_signer", <<>>)

\* ds_client = oci.data_science.DataScienceClient(config={}, signer=signer)
NotebookClient(k) ==
    /\ At(k, "create_notebook_session", "ds_client")
    /\ \/ /\ Goto(k, "create", <<>>)
          /\ Issue(k, "DataScienceClient", <<>>, TRUE, 0)
          /\ UNCHANGED <<projects, models, sessions, principal, stdout, stderr, seen, started>>
       \/ SdkFails(k, "DataScienceClient", <<>>)

\* Mutant of CreateNotebookSessionDetails: OCPUs and memory are exchanged.
CreateNotebookSessionDetailsExchanged(project_id, compartment_id, display_name) ==
    [project_id |-> project_id,
     compartment_id |-> compartment_id,
     display_name |-> display_name,
     notebook_session_config_details |->
        [shape |-> "VM.Standard.E4.Flex",
         block_storage_size_in_gbs |-> 50,
         notebook_session_shape_config_details |->
            [ocpus |-> 16, memory_in_gbs |-> 4]]]

\* oci.data_science.models.CreateNotebookSessionDetails(...) as the handler builds it.
CreateNotebookSessionDetails(project_id, compartment_id, display_name) ==
    [project_id |-> project_id,
     compartment_id |-> compartment_id,
     display_name |-> display_name,
     notebook_session_config_details |->
        [shape |-> "VM.Standard.E4.Flex",
         block_storage_size_in_gbs |-> 50,
         notebook_session_shape_config_details |->
            [ocpus |-> 4, memory_in_gbs |-> 16]]]

\* What the service stores and returns as response.data for a creation request.
NewSession(details) ==
    [id |-> Len(sessions) + 1,
     notebook_session_url |-> <<"https://notebook", Len(sessions) + 1>>,
     display_name |-> details.display_name,
     time_created |-> Len(sessions) + 1,
     notebook_session_config_details |-> details.notebook_session_config_details,
     project_id |-> details.project_id,
     compartment_id |-> details.compartment_id]

\* create_notebook_session_response = ds_client.create_notebook_session(...)
NotebookCreate(k) ==
    /\ At(k, "create_notebook_session", "create")
    /\ LET a == inv[k].args
           details == CreateNotebookSessionDetails(a.project_id, a.compartment_id, a.display_name)
           data == NewSession(details)
       IN \/ /\ sessions' = Append(sessions, data)
             /\ Goto(k, "reshape", [create_notebook_session_response |-> [data |-> data]])
             /\ Issue(k, "create_notebook_session", details, TRUE, data.id)
             /\ UNCHANGED <<projects, models, principal, stdout, stderr, seen, started>>
          \/ SdkFails(k, "create_notebook_session", details)

\* notebook_dict = {}; four assignments from response.data
NotebookDict(response) ==
    [notebook_session_url |-> response.data.notebook_session_url,
     display_name |-> response.data.display_name,
     time_created |-> response.data.time_created,
     session_details |-> response.data.notebook_session_config_details]

\* return notebook_dict
NotebookReshape(k) ==
    /\ At(k, "create_notebook_session", "reshape")
    /\ \/ /\ Return(k, NotebookDict(inv[k].local.create_notebook_session_response))
          /\ UNCHANGED <<projects, models, sessions, principal, stdout, stderr, calls, seen, started>>
       \/ LocalFails(k)

\* ---- except Exception as e: print(f"<prefix>: {e}"); raise
\* The line print() writes: the prefix and str(e).
ErrorLine(tool, e) == [prefix |-> ErrorPrefix(tool), e |-> e.message]

\* Mutant of PrintStream: the diagnostic goes through the logger.
PrintToStderr == "stderr"

\* The stream print() writes to (sys.stdout; logging writes to sys.stderr).
PrintStream == "stdout"

\* Mutant of Reraised: raise Exception(str(e)) instead of a bare raise.
ReraisedAsGeneric(e) == [type |-> "Exception", message |-> e.message]

\* A bare raise re-raises the exception being handled.
Reraised(e) == e

\* The except clause: print the diagnostic line, then raise.
Except(k) ==
    /\ inv[k].status = "running"
    /\ inv[k].pc = "except"
    /\ LET line == ErrorLine(inv[k].tool, inv[k].thrown)
       IN /\ stdout' = [stdout EXCEPT ![k] =
                          IF PrintStream = "stdout" THEN Append(@, line) ELSE @]
          /\ stderr' = [stderr EXCEPT ![k] =
                          IF PrintStream = "stderr"
                          THEN Append(@, [level |-> "ERROR", message |-> line])
                          ELSE @]
    /\ inv' = [inv EXCEPT ![k].pc = "done", ![k].status = "raised",
                          ![k].exc = Reraised(inv[k].thrown)]
    /\ UNCHANGED <<projects, models, sessions, principal, calls, seen, started>>

Next ==
    \E k \in Clients :
        \/ Invoke(k)
        \/ GetCompartmentSigner(k)
        \/ GetCompartmentReturn(k)
        \/ ProjectCountLog(k)
        \/ ProjectCountCatalog(k)
        \/ ProjectCountList(k)
        \/ ProjectCountLen(k)
        \/ CreateProjectCatalog(k)
        \/ CreateProjectCall(k)
        \/ CreateProjectReshape(k)
        \/ ModelCountCatalog(k)
        \/ ModelCountList(k)
        \/ ListProjectsCatalog(k)
        \/ ListProjectsList(k)
        \/ ListProjectsReshape(k)
        \/ NotebookSigner(k)
        \/ NotebookClient(k)
        \/ NotebookCreate(k)
        \/ NotebookReshape(k)
        \/ Except(k)

Spec == Init /\ [][Next]_vars

\* ----------------------------------------------------------------- claims
Raised(k) == inv[k].status = "raised"
Returned(k) == inv[k].status = "returned"

\* Error diagnostics written during the invocation, on either stream.
Diagnostics(k) ==
    stdout[k] \o SelectSeq(stderr[k], LAMBDA r : r.level = "ERROR")

\* Everything written during the invocation, on either stream.
LinesWritten(k) == Len(stdout[k]) + Len(stderr[k])

LastCall(k) == calls[k][Len(calls[k])]

\* The invocation failed in an SDK call (not in a local statement).
FailedInCall(k) == Len(calls[k]) > 0 /\ ~LastCall(k).ok

\* C1 as stated: in every tool, a failed backend call ends the invocation with
\* the same exception and with exactly one diagnostic line emitted.
C1_AsStated ==
    \A k \in Clients :
        (Raised(k) /\ FailedInCall(k)) =>
            /\ inv[k].exc = inv[k].thrown
            /\ Len(Diagnostics(k)) = 1

\* C1 amended: a failed backend call ends the invocation with the same
\* exception in all six tools; the five handlers with a try block print
\* exactly one diagnostic line (project_count has written its entry INFO
\* record before it), and get_compartment_id writes no line at all.
C1_SameExceptionOneLineWhereCaught ==
    \A k \in Clients :
        (Raised(k) /\ FailedInCall(k)) =>
            /\ inv[k].thrown \in Exceptions
            /\ inv[k].exc = inv[k].thrown
            /\ (inv[k].tool = "get_compartment_id") => (LinesWritten(k) = 0)
            /\ (inv[k].tool # "get_compartment_id") =>
                  (/\ Len(Diagnostics(k)) = 1
                   /\ Diagnostics(k)[1].e = inv[k].thrown.message
                   /\ LinesWritten(k) = (IF inv[k].tool = "project_count" THEN 2 ELSE 1))

\* C1 witness: a notebook-session creation call failed and the invocation ended raising.
C1_Witness ==
    \E k \in Clients :
        /\ Raised(k)
        /\ inv[k].tool = "create_notebook_session"
        /\ Len(calls[k]) = 3
        /\ LastCall(k).op = "create_notebook_session"
        /\ ~LastCall(k).ok
        /\ inv[k].exc.type = "ConnectTimeout"

\* The invocation's successful creation calls.
Creations(k) ==
    {i \in 1..Len(calls[k]) :
        /\ calls[k][i].op \in {"create_project", "create_notebook_session"}
        /\ calls[k][i].ok}

\* The backend holds a resource that a creation call of the invocation made.
HoldsCreated(k) ==
    \E i \in Creations(k) :
        IF calls[k][i].op = "create_project"
        THEN \E j \in 1..Len(projects) : projects[j].id = calls[k][i].resp
        ELSE \E j \in 1..Len(sessions) : sessions[j].id = calls[k][i].resp

Creating(k) == inv[k].tool \in {"create_project", "create_notebook_session"}

\* C2 as stated: an invocation of a creating tool that raises has left nothing
\* in the backend, whatever step failed.
C2_AsStated ==
    \A k \in Clients :
        (Creating(k) /\ Raised(k)) => ~HoldsCreated(k)

\* C2 amended: an invocation of a creating tool that returns has made exactly
\* one resource, which the backend holds; one that raises at or before the
\* creation call has made none; one that raises in the reshaping steps after
\* the creation call leaves the created resource in the backend.
C2_AtomicUpToCreation ==
    \A k \in Clients :
        Creating(k) =>
            /\ Returned(k) => (Cardinality(Creations(k)) = 1 /\ HoldsCreated(k))
            /\ (Raised(k) /\ FailedInCall(k)) => (Creations(k) = {} /\ ~HoldsCreated(k))
            /\ (Raised(k) /\ ~FailedInCall(k)) =>
                  (Cardinality(Creations(k)) = 1 /\ HoldsCreated(k))

\* C2 witness: create_project raised in the reshaping step and the project exists.
C2_Witness ==
    \E k \in Clients :
        /\ inv[k].tool = "create_project"
        /\ Raised(k)
        /\ ~FailedInCall(k)
        /\ HoldsCreated(k)

Caught == {"project_count", "create_project", "model_count", "list_projects",
           "create_notebook_session"}

\* C8 as stated: on failure the five handlers write the diagnostic to standard
\* error, and to no other channel, before the exception reaches the caller.
C8_AsStated ==
    \A k \in Clients :
        (Raised(k) /\ inv[k].tool \in Caught) =>
            /\ \E i \in 1..Len(stderr[k]) :
                  /\ stderr[k][i].level = "ERROR"
                  /\ stderr[k][i].message = ErrorLine(inv[k].tool, inv[k].thrown)
            /\ stdout[k] = <<>>

\* C8 amended: on failure the five handlers write the diagnostic with print(),
\* that is to standard output and not to standard error, before the exception
\* reaches the caller.
C8_DiagnosticOnStdout ==
    \A k \in Clients :
        (Raised(k) /\ inv[k].tool \in Caught) =>
            /\ stdout[k] = <<ErrorLine(inv[k].tool, inv[k].thrown)>>
            /\ \A i \in 1..Len(stderr[k]) : stderr[k][i].level # "ERROR"

\* C8 witness: project_count raised; its INFO record is on standard error and
\* the diagnostic on standard output.
C8_Witness ==
    \E k \in Clients :
        /\ Raised(k)
        /\ inv[k].tool = "project_count"
        /\ Len(stderr[k]) = 1
        /\ Len(stdout[k]) = 1
        /\ stdout[k][1].prefix = "Error getting project count"

\* C9: no handler retries: a failed backend call is the last backend call of its
\* invocation, and from then on the invocation is in its except clause or has
\* ended raising.
C9_NoCallAfterFailure ==
    \A k \in Clients :
        \A i \in 1..Len(calls[k]) :
            ~calls[k][i].ok =>
                /\ i = Len(calls[k])
                /\ inv[k].thrown \in Exceptions
                /\ \/ inv[k].status = "running" /\ inv[k].pc = "except"
                   \/ Raised(k)

\* C9 witness: project_count's first listing failed; the second listing was never issued.
C9_Witness ==
    \E k \in Clients :
        /\ Raised(k)
        /\ inv[k].tool = "project_count"
        /\ Len(calls[k]) = 2
        /\ LastCall(k).op = "list_projects"
        /\ ~LastCall(k).ok

\* C3: project_count(c) returns N when compartment c held N projects throughout
\* the invocation (no concurrent change).
C3_CountIsN ==
    \A k \in Clients :
        (/\ inv[k].tool = "project_count"
         /\ Returned(k)
         /\ Cardinality(seen[k]) = 1) => seen[k] = {inv[k].result}

\* C3 witness: project_count returned 3 for a compartment that held 3 projects throughout.
C3_Witness ==
    \E k \in Clients :
        /\ inv[k].tool = "project_count"
        /\ Returned(k)
        /\ seen[k] = {3}
        /\ inv[k].result = 3

\* The projects of compartment c are exactly the sequence listing.
IsListingOf(listing, c) ==
    /\ Len(listing) <= Len(ListProjectsOf(c))
    /\ \A i \in 1..Len(listing) : listing[i] = ListProjectsOf(c)[i]

\* C4: list_projects returns one mapping per project the listing call returned,
\* the i-th holding the identifier, display name and description of the i-th
\* project: none dropped, duplicated or reordered.
C4_SameRecordsSameOrder ==
    \A k \in Clients :
        (inv[k].tool = "list_projects" /\ Returned(k)) =>
            LET listing == inv[k].local.projects
                result == inv[k].result
            IN /\ IsListingOf(listing, inv[k].args.compartment_id)
               /\ Len(result) = Len(listing)
               /\ \A i \in 1..Len(listing) :
                     /\ DOMAIN result[i] = {"project_id", "project_name", "project_description"}
                     /\ result[i].project_id = listing[i].id
                     /\ result[i].project_name = listing[i].display_name
                     /\ result[i].project_description = listing[i].description

\* C4 witness: three projects listed in the backend's order, which is not sorted by identifier.
C4_Witness ==
    \E k \in Clients :
        /\ inv[k].tool = "list_projects"
        /\ Returned(k)
        /\ Len(inv[k].result) = 3
        /\ inv[k].result[1].project_id = 102
        /\ inv[k].result[2].project_id = 101
        /\ inv[k].result[3].project_id = 3

CreateCalls(k) == {i \in 1..Len(calls[k]) : calls[k][i].op = "create_project"}

\* C5: a successful create_project(X, Y, C) has issued exactly one creation call,
\* carrying display name X, description Y and compartment C, and returns a
\* mapping containing the three values; each invocation creates a project of its
\* own, whatever the backend already holds (no local duplicate check).
C5_OneCreationCallPerInvocation ==
    \A k \in Clients :
        (inv[k].tool = "create_project" /\ Returned(k)) =>
            /\ Cardinality(CreateCalls(k)) = 1
            /\ \A i \in CreateCalls(k) :
                  /\ calls[k][i].ok
                  /\ calls[k][i].req.display_name = inv[k].args.project_name
                  /\ calls[k][i].req.description = inv[k].args.project_description
                  /\ calls[k][i].req.compartment_id = inv[k].args.compartment_id
                  /\ \E j \in 1..Len(projects) :
                        /\ projects[j].id = calls[k][i].resp
                        /\ projects[j].display_name = inv[k].args.project_name
                        /\ projects[j].description = inv[k].args.project_description
                        /\ projects[j].compartment_id = inv[k].args.compartment_id
            /\ \A col \in DOMAIN inv[k].result :
                  /\ inv[k].result[col].display_name = inv[k].args.project_name
                  /\ inv[k].result[col].description = inv[k].args.project_description
                  /\ inv[k].result[col].compartment_id = inv[k].args.compartment_id
            /\ DOMAIN inv[k].result # {}

\* C5 witness: two invocations with the same arguments have both returned and the
\* backend holds two projects with those values.
C5_Witness ==
    /\ \A k \in Clients :
          /\ inv[k].tool = "create_project"
          /\ Returned(k)
          /\ inv[k].args = [project_name |-> "X", project_description |-> "Y",
                            compartment_id |-> "cB"]
    /\ Len(ListProjectsOf("cB")) = 2
    /\ ListProjectsOf("cB")[1].display_name = ListProjectsOf("cB")[2].display_name
    /\ ListProjectsOf("cB")[1].id # ListProjectsOf("cB")[2].id

NotebookCalls(k) == {i \in 1..Len(calls[k]) : calls[k][i].op = "create_notebook_session"}

\* C6: every creation request create_notebook_session sends carries the fixed
\* shape VM.Standard.E4.Flex, 50 GB block storage, 4 OCPUs and 16 GB memory and
\* the caller's three values; on success the returned mapping has exactly the keys
\* session URL, display name, creation time and session configuration, each taken
\* from the session the service created.
C6_FixedShapeAndFourKeys ==
    \A k \in Clients :
        (inv[k].tool = "create_notebook_session") =>
            /\ \A i \in NotebookCalls(k) :
                  LET req == calls[k][i].req
                      cfg == req.notebook_session_config_details
                  IN /\ cfg.shape = "VM.Standard.E4.Flex"
                     /\ cfg.block_storage_size_in_gbs = 50
                     /\ cfg.notebook_session_shape_config_details.ocpus = 4
                     /\ cfg.notebook_session_shape_config_details.memory_in_gbs = 16
                     /\ req.project_id = inv[k].args.project_id
                     /\ req.compartment_id = inv[k].args.compartment_id
                     /\ req.display_name = inv[k].args.display_name
            /\ Returned(k) =>
                  (/\ Cardinality(NotebookCalls(k)) = 1
                   /\ DOMAIN inv[k].result =
                         {"notebook_session_url", "display_name", "time_created",
                          "session_details"}
                   /\ \E i \in NotebookCalls(k) : \E j \in 1..Len(sessions) :
                         /\ sessions[j].id = calls[k][i].resp
                         /\ inv[k].result.notebook_session_url = sessions[j].notebook_session_url
                         /\ inv[k].result.display_name = sessions[j].display_name
                         /\ inv[k].result.time_created = sessions[j].time_created
                         /\ inv[k].result.session_details =
                               sessions[j].notebook_session_config_details)

\* C6 witness: the second notebook session was created and its mapping returned.
C6_Witness ==
    \E k \in Clients :
        /\ inv[k].tool = "create_notebook_session"
        /\ Returned(k)
        /\ inv[k].args.display_name = "Z"
        /\ inv[k].result.time_created = 2
        /\ inv[k].result.session_details.shape = "VM.Standard.E4.Flex"

\* C7: model_count(c) returns the number of models compartment c holds, and a
\* failed model listing is reported with one diagnostic line and re-raised unchanged.
C7_ModelCount ==
    \A k \in Clients :
        (inv[k].tool = "model_count") =>
            /\ Returned(k) => (inv[k].result = Len(models[inv[k].args.compartment_id]))
            /\ Raised(k) =>
                  (/\ inv[k].exc = inv[k].thrown
                   /\ inv[k].thrown \in Exceptions
                   /\ Len(Diagnostics(k)) = 1
                   /\ Diagnostics(k)[1] = [prefix |-> "Error getting model count",
                                           e |-> inv[k].thrown.message]
                   /\ LinesWritten(k) = 1)

\* C7 witness: model_count returned 3 for the compartment holding three models.
C7_Witness ==
    \E k \in Clients :
        /\ inv[k].tool = "model_count"
        /\ Returned(k)
        /\ inv[k].args.compartment_id = "cA"
        /\ inv[k].result = 3

\* C10: the count project_count returns is a count the compartment held at some
\* moment between the start and the return of the invocation, also when projects
\* are created concurrently between its two readings of the listing.
C10_CountWasHeld ==
    \A k \in Clients :
        (inv[k].tool = "project_count" /\ Returned(k)) => inv[k].result \in seen[k]

\* C10 witness: a project was created between the explicit listing (2 projects)
\* and the length taken of the catalog (3 projects).
C10_Witness ==
    \E k \in Clients :
        /\ inv[k].tool = "project_count"
        /\ Returned(k)
        /\ seen[k] = {2, 3}
        /\ Len(inv[k].local.projects) = 2
        /\ inv[k].result = 3
====
